---- MODULE Spec2Model ----
(***************************************************************************)
(* Model of the course retrieval core: SimpleCourseRAGSystem (lexical      *)
(* matcher, src/simple_rag_system.py) and CourseRAGSystem (embedding       *)
(* matcher, src/rag_system.py).                                            *)
(*                                                                         *)
(* A Python str is a sequence of one-character strings; None is the value  *)
(* NoneVal; a dict is a function on its keys, so a missing key is a key    *)
(* outside DOMAIN.  A call that can raise returns [raised, value].  A      *)
(* float score is kept as the exact fraction num/den.                      *)
(***************************************************************************)
EXTENDS Integers, Sequences, FiniteSets, TLC

VARIABLES
    engine,        \* which class was constructed: "lexical" or "embedding"
    courses,       \* self.courses, the store, in load order
    op,            \* the call that has just returned ("none" between calls)
    a_query,       \* argument query of search_courses / simple_search_score
    a_text,        \* argument course_text of simple_search_score
    a_top_k,       \* argument top_k
    a_interests,   \* argument user_interests
    a_background,  \* argument user_background
    a_skill,       \* argument skill_level
    candidates,    \* what the inner search_courses call gave get_recommendations
    idx_returned,  \* embedding: the labels index.search returned
    idx_used,      \* embedding: the labels the result loop used as list indices
    inner_raised,  \* an exception was raised inside the try block of search_courses
    a_course_id,   \* argument course_id of get_course_by_id
    a_criteria,    \* arguments category, difficulty and skills of filter_courses
    app,           \* st.session_state and the script run of app.py
    ret            \* outcome of the call: [raised |-> BOOLEAN, value |-> ...]

vars == <<engine, courses, op, a_query, a_text, a_top_k, a_interests,
          a_background, a_skill, candidates, idx_returned, idx_used, inner_raised,
          a_course_id, a_criteria, app, ret>>

-----------------------------------------------------------------------------
(* Bounds of the model *)

MaxCourses == 4
MaxRagCourses == 2
MaxQueryWords == 2
MaxTextLen == 3
MaxTopK == 2
MaxNegTopK == 1

-----------------------------------------------------------------------------
(* Python values *)

NoneVal == <<"None">>

Min(a, b) == IF a <= b THEN a ELSE b
Max(a, b) == IF a >= b THEN a ELSE b

\* str.lower() on ASCII text
LowerMap ==
    [c \in {"A","B","C","D","E","F","G","H","I","J","K","L","M",
            "N","O","P","Q","R","S","T","U","V","W","X","Y","Z"} |->
        CASE c = "A" -> "a" [] c = "B" -> "b" [] c = "C" -> "c" [] c = "D" -> "d"
          [] c = "E" -> "e" [] c = "F" -> "f" [] c = "G" -> "g" [] c = "H" -> "h"
          [] c = "I" -> "i" [] c = "J" -> "j" [] c = "K" -> "k" [] c = "L" -> "l"
          [] c = "M" -> "m" [] c = "N" -> "n" [] c = "O" -> "o" [] c = "P" -> "p"
          [] c = "Q" -> "q" [] c = "R" -> "r" [] c = "S" -> "s" [] c = "T" -> "t"
          [] c = "U" -> "u" [] c = "V" -> "v" [] c = "W" -> "w" [] c = "X" -> "x"
          [] c = "Y" -> "y" [] c = "Z" -> "z"]

Lower(s) == [i \in 1..Len(s) |-> IF s[i] \in DOMAIN LowerMap THEN LowerMap[s[i]] ELSE s[i]]

\* the characters the regex class \w matches
WordChars ==
    DOMAIN LowerMap \cup {LowerMap[c] : c \in DOMAIN LowerMap}
        \cup {"0","1","2","3","4","5","6","7","8","9","_"}

\* re.findall(r'\b\w+\b', s) as a set: the maximal runs of word characters,
\* scanned from position i with the run cur open
RECURSIVE TokenScan(_, _, _)
TokenScan(s, i, cur) ==
    IF i > Len(s) THEN (IF cur = <<>> THEN {} ELSE {cur})
    ELSE IF s[i] \in WordChars THEN TokenScan(s, i + 1, Append(cur, s[i]))
    ELSE (IF cur = <<>> THEN {} ELSE {cur}) \cup TokenScan(s, i + 1, <<>>)

Tokens(s) == TokenScan(s, 1, <<>>)

\* sub in s
Contains(sub, s) ==
    \E i \in 0..(Len(s) - Len(sub)) : SubSeq(s, i + 1, i + Len(sub)) = sub

\* sep.join(parts)
RECURSIVE Join(_, _)
Join(parts, sep) ==
    IF parts = <<>> THEN <<>>
    ELSE IF Len(parts) = 1 THEN parts[1]
    ELSE parts[1] \o sep \o Join(Tail(parts), sep)

\* xs[:k]
Slice(xs, k) ==
    IF k >= 0 THEN SubSeq(xs, 1, Min(k, Len(xs)))
    ELSE SubSeq(xs, 1, Max(0, Len(xs) + k))

\* truth value of a str or None in an if
Truthy(v) == v # NoneVal /\ v # <<>>

Ok(v) == [raised |-> FALSE, value |-> v]
Raised == [raised |-> TRUE, value |-> <<>>]

-----------------------------------------------------------------------------
(* The course data: records data['courses'] may hold.  load_courses stores *)
(* them as they come, so a record may lack a key or hold a non-string.     *)

sBeginner == <<"B","e","g","i","n","n","e","r">>
sBeginnerLc == <<"b","e","g","i","n","n","e","r">>
sIntermediate == <<"I","n","t","e","r","m","e","d","i","a","t","e">>
sAdvanced == <<"A","d","v","a","n","c","e","d">>
sAdvancedUc == <<"A","D","V","A","N","C","E","D">>
sExpert == <<"e","x","p","e","r","t">>

Catalogue ==
    << [id |-> <<"c","1">>, title |-> <<"a"," ","B">>, description |-> <<"a","b">>,
        category |-> <<"x">>, difficulty |-> sBeginner, skills |-> << <<"a">> >>,
        prerequisites |-> <<>>],
       [id |-> <<"c","2">>, title |-> <<"b">>, description |-> <<"x","a"," ","b">>,
        category |-> <<"y">>, difficulty |-> sAdvanced, skills |-> << <<"b">> >>,
        prerequisites |-> <<>>],
       [id |-> <<"c","3">>, title |-> <<"A">>, description |-> <<"a">>,
        category |-> <<"x">>, difficulty |-> sBeginnerLc, skills |-> << >>,
        prerequisites |-> <<>>],
       [id |-> <<"c","4">>, title |-> <<"a","b">>, description |-> <<"b"," ","a">>,
        category |-> <<"y">>, difficulty |-> sIntermediate,
        skills |-> << <<"a">>, <<"B">> >>, prerequisites |-> <<"b">>],
       \* no title key
       [id |-> <<"c","5">>, description |-> <<"a">>,
        category |-> <<"x">>, difficulty |-> sBeginner, skills |-> << <<"a">> >>,
        prerequisites |-> <<>>] >>

TextKeys == {"title", "description", "category", "difficulty", "skills", "prerequisites"}

\* every key create_course_text reads is there and holds what ' '.join accepts
WellFormed(course) ==
    /\ TextKeys \subseteq DOMAIN course
    /\ \A k \in TextKeys \ {"skills"} : course[k] # NoneVal
    /\ \A i \in 1..Len(course.skills) : course.skills[i] # NoneVal

\* the text both create_course_text methods join, before any case folding
TextParts(course) ==
    Join(<<course.title, course.description, course.category, course.difficulty,
           Join(course.skills, <<" ">>), course.prerequisites>>, <<" ">>)

\* SimpleCourseRAGSystem.create_course_text: KeyError / TypeError, or the lowercased text
create_course_text(course) ==
    IF ~WellFormed(course) THEN Raised ELSE Ok(Lower(TextParts(course)))

\* CourseRAGSystem.create_course_text: the same, case preserved
rag_create_course_text(course) ==
    IF ~WellFormed(course) THEN Raised ELSE Ok(TextParts(course))

-----------------------------------------------------------------------------
(* Lexical matcher *)

BonusNum == 3
BonusDen == 10

ScoreGT(a, b) == a.num * b.den > b.num * a.den
ScoreGE(a, b) == a.num * b.den >= b.num * a.den
Zero == [num |-> 0, den |-> 1]

\* lines 72-83 of simple_search_score, from the two word sets and the outcome
\* of the phrase test: the score as a fraction of denominator 10 * |query_words|
ScoreFromWords(query_words, course_words, phrase_found) ==
    IF query_words = {} THEN Zero
    ELSE [num |-> Min(BonusDen * Cardinality(query_words \cap course_words)
                        + (IF phrase_found THEN BonusNum * Cardinality(query_words) ELSE 0),
                      BonusDen * Cardinality(query_words)),
          den |-> BonusDen * Cardinality(query_words)]

\* the same with the phrase bonus given to a query without tokens too
ScoreFromWords_BonusOnEmpty(query_words, course_words, phrase_found) ==
    IF query_words = {} THEN [num |-> IF phrase_found THEN BonusNum ELSE 0, den |-> BonusDen]
    ELSE [num |-> Min(BonusDen * Cardinality(query_words \cap course_words)
                        + (IF phrase_found THEN BonusNum * Cardinality(query_words) ELSE 0),
                      BonusDen * Cardinality(query_words)),
          den |-> BonusDen * Cardinality(query_words)]

\* simple_search_score looking for the query as typed, not lowercased, in the text
simple_search_score_RawPhrase(query, course_text) ==
    IF query = NoneVal \/ course_text = NoneVal THEN Raised
    ELSE Ok(ScoreFromWords(Tokens(Lower(query)), Tokens(Lower(course_text)),
                           Contains(query, Lower(course_text))))

\* simple_search_score with the empty-query test after the phrase bonus
simple_search_score_BonusOnEmpty(query, course_text) ==
    IF query = NoneVal \/ course_text = NoneVal THEN Raised
    ELSE Ok(ScoreFromWords_BonusOnEmpty(Tokens(Lower(query)), Tokens(Lower(course_text)),
                                        Contains(Lower(query), Lower(course_text))))

\* SimpleCourseRAGSystem.simple_search_score; None.lower() raises
simple_search_score(query, course_text) ==
    IF query = NoneVal \/ course_text = NoneVal THEN Raised
    ELSE Ok(ScoreFromWords(Tokens(Lower(query)), Tokens(Lower(course_text)),
                           Contains(Lower(query), Lower(course_text))))

\* lines 100-101: the score of one course, or the exception of either call
ScoreText(query, course_text) ==
    IF course_text.raised THEN Raised ELSE simple_search_score(query, course_text.value)

\* lines 104-105: course.copy() with the score written into the copy
ScoredCopy(course, score) == ("similarity_score" :> score) @@ course

\* the loop of search_courses from self.courses[i] on, results so far in acc:
\* the scored copies of the courses with score > 0, or the first exception
RECURSIVE ScoreAll(_, _, _, _)
RECURSIVE ScoreStep(_, _, _, _, _)
ScoreStep(cs, query, i, acc, score) ==
    IF score.raised THEN Raised
    ELSE ScoreAll(cs, query, i + 1,
                  IF ScoreGT(score.value, Zero)
                  THEN Append(acc, ScoredCopy(cs[i], score.value)) ELSE acc)

ScoreAll(cs, query, i, acc) ==
    IF i > Len(cs) THEN Ok(acc)
    ELSE ScoreStep(cs, query, i, acc, ScoreText(query, create_course_text(cs[i])))

\* a descending sort that puts a course before the courses it ties with
RECURSIVE InsertDesc_BeforeTies(_, _)
InsertDesc_BeforeTies(sorted, x) ==
    IF sorted = <<>> THEN <<x>>
    ELSE IF ScoreGT(sorted[1].similarity_score, x.similarity_score)
         THEN <<sorted[1]>> \o InsertDesc_BeforeTies(Tail(sorted), x)
         ELSE <<x>> \o sorted

\* list.sort(key=similarity_score, reverse=True): stable, descending
RECURSIVE InsertDesc(_, _)
InsertDesc(sorted, x) ==
    IF sorted = <<>> THEN <<x>>
    ELSE IF ScoreGE(sorted[1].similarity_score, x.similarity_score)
         THEN <<sorted[1]>> \o InsertDesc(Tail(sorted), x)
         ELSE <<x>> \o sorted

RECURSIVE SortDesc(_, _)
SortDesc(xs, n) ==
    IF n = 0 THEN <<>> ELSE InsertDesc(SortDesc(xs, n - 1), xs[n])

\* RankTop writing the enumerate index itself as the rank
RankTop_ZeroBased(results, top_k) ==
    [i \in 1..Len(Slice(results, top_k)) |-> ("rank" :> i - 1) @@ results[i]]

\* the ranks written into results[:top_k], which is also the list returned
RankTop(results, top_k) ==
    [i \in 1..Len(Slice(results, top_k)) |-> ("rank" :> i) @@ results[i]]

\* lines 108-115 of search_courses, after the loop
SortAndRank(scored, top_k) ==
    IF scored.raised THEN Raised
    ELSE Ok(RankTop(SortDesc(scored.value, Len(scored.value)), top_k))

\* the try block of SimpleCourseRAGSystem.search_courses
search_try(cs, query, top_k) == SortAndRank(ScoreAll(cs, query, 1, <<>>), top_k)

\* an except clause that logs and lets the exception go on
ExceptEmpty_Reraise(body) == body

\* except Exception: return []
ExceptEmpty(body) == IF body.raised THEN Ok(<<>>) ELSE body


\* SimpleCourseRAGSystem.search_courses
search_courses(cs, query, top_k) == ExceptEmpty(search_try(cs, query, top_k))

-----------------------------------------------------------------------------
(* Recommendation composer, the same code in both classes *)

RecognizedLevels == {Lower(sBeginner), Lower(sIntermediate), Lower(sAdvanced)}

\* query_parts and ' '.join(query_parts): TypeError when a part is no str
build_query(user_interests, user_background, skill_level) ==
    LET query_parts ==
            <<user_interests>>
                \o (IF Truthy(user_background) THEN <<user_background>> ELSE <<>>)
                \o (IF Truthy(skill_level) THEN <<skill_level>> ELSE <<>>)
    IN  IF \E i \in 1..Len(query_parts) : query_parts[i] = NoneVal
        THEN Raised ELSE Ok(Join(query_parts, <<" ">>))

\* skill_filter testing skill_level, not skill_level.lower(), against the level list
skill_filter_RawLevel(recommendations, skill_level) ==
    IF Truthy(skill_level) /\ skill_level \in RecognizedLevels
    THEN IF \E i \in 1..Len(recommendations) : recommendations[i].difficulty = NoneVal
         THEN Raised
         ELSE LET Keep(course) == Lower(course.difficulty) = Lower(skill_level)
              IN  Ok(SelectSeq(recommendations, Keep))
    ELSE Ok(recommendations)

\* the skill-level list comprehension; None.lower() on a difficulty raises
skill_filter(recommendations, skill_level) ==
    IF Truthy(skill_level) /\ Lower(skill_level) \in RecognizedLevels
    THEN IF \E i \in 1..Len(recommendations) : recommendations[i].difficulty = NoneVal
         THEN Raised
         ELSE LET Keep(course) == Lower(course.difficulty) = Lower(skill_level)
              IN  Ok(SelectSeq(recommendations, Keep))
    ELSE Ok(recommendations)

\* lines 203-204: the truncation of the filtered list
Truncate(filtered, top_k) ==
    IF filtered.raised THEN Raised ELSE Ok(Slice(filtered.value, top_k))

\* what get_recommendations does with the list search_courses handed it
recommend_from(searched, skill_level, top_k) ==
    IF searched.raised THEN Raised
    ELSE Truncate(skill_filter(searched.value, skill_level), top_k)

\* lines 195-204, from the query the join gave
RecommendQuery(cs, query, skill_level, top_k) ==
    IF query.raised THEN Raised
    ELSE recommend_from(search_courses(cs, query.value, top_k * 2), skill_level, top_k)

\* the same asking the matcher for top_k, not 2 * top_k, candidates
RecommendQuery_NoOverfetch(cs, query, skill_level, top_k) ==
    IF query.raised THEN Raised
    ELSE recommend_from(search_courses(cs, query.value, top_k), skill_level, top_k)

\* get_recommendations asking the matcher for top_k, not 2 * top_k, candidates
get_recommendations_NoOverfetch(cs, user_interests, user_background, skill_level, top_k) ==
    RecommendQuery_NoOverfetch(cs, build_query(user_interests, user_background, skill_level),
                               skill_level, top_k)

\* SimpleCourseRAGSystem.get_recommendations
get_recommendations(cs, user_interests, user_background, skill_level, top_k) ==
    RecommendQuery(cs, build_query(user_interests, user_background, skill_level),
                   skill_level, top_k)

-----------------------------------------------------------------------------
(* Embedding matcher.  The encoder and the index are external: a query's   *)
(* similarities sims and the order the index lists the courses in are      *)
(* chosen by the caller of these operators.                                *)

NoLabel == 0 - 1
\* the distance that goes with NoLabel (the lowest float32)
NoScore == [num |-> 0 - 2147483647, den |-> 1]

\* self.index.search(query_embedding, top_k): top_k hits, nearest first, the
\* places past the last indexed vector filled with label -1
IndexSearch(n, order, sims, top_k) ==
    [i \in 1..top_k |->
        IF i <= n THEN [label |-> order[i] - 1, score |-> [num |-> sims[order[i]], den |-> 1]]
        ELSE [label |-> NoLabel, score |-> NoScore]]

\* the labels the loop lets through its test idx < len(self.courses)
UsedLabels(cs, hits) ==
    LET Passes(hit) == hit.label < Len(cs)
    IN  SelectSeq(hits, Passes)

\* self.courses[idx] for a Python index idx
PyIndexOk(cs, idx) == -Len(cs) <= idx /\ idx < Len(cs)
PyIndex(cs, idx) == IF idx >= 0 THEN cs[idx + 1] ELSE cs[Len(cs) + idx + 1]

\* lines 115-118: the course at label idx, copied, with its score and rank
RagEntry(cs, hit, i) ==
    ("rank" :> i) @@ ("similarity_score" :> hit.score) @@ PyIndex(cs, hit.label)

\* the result loop of CourseRAGSystem.search_courses from hits[i] on, results
\* so far in acc
RECURSIVE RagResults(_, _, _, _)
RagResults(cs, hits, i, acc) ==
    IF i > Len(hits) THEN Ok(acc)
    ELSE IF hits[i].label < Len(cs)
         THEN IF ~PyIndexOk(cs, hits[i].label) THEN Raised
              ELSE RagResults(cs, hits, i + 1, Append(acc, RagEntry(cs, hits[i], i)))
         ELSE RagResults(cs, hits, i + 1, acc)

\* the try block of CourseRAGSystem.search_courses: encode raises on a
\* failing model or a query that is no str, index.search on top_k <= 0
rag_search_try(cs, query, top_k, encode_ok, order, sims) ==
    IF ~encode_ok \/ query = NoneVal \/ top_k <= 0 THEN Raised
    ELSE RagResults(cs, IndexSearch(Len(cs), order, sims, top_k), 1, <<>>)

\* CourseRAGSystem.search_courses
rag_search_courses(cs, query, top_k, encode_ok, order, sims) ==
    ExceptEmpty(rag_search_try(cs, query, top_k, encode_ok, order, sims))

\* lines 200-209 of CourseRAGSystem.get_recommendations, from the query the join gave
RagRecommendQuery(cs, query, skill_level, top_k, encode_ok, order, sims) ==
    IF query.raised THEN Raised
    ELSE recommend_from(rag_search_courses(cs, query.value, top_k * 2,
                                           encode_ok, order, sims),
                        skill_level, top_k)

\* CourseRAGSystem.get_recommendations
rag_get_recommendations(cs, user_interests, user_background, skill_level, top_k,
                        encode_ok, order, sims) ==
    RagRecommendQuery(cs, build_query(user_interests, user_background, skill_level),
                      skill_level, top_k, encode_ok, order, sims)

-----------------------------------------------------------------------------
(* Lookup by id and the filter engine.  Both classes hold the same code.   *)

\* the loop of get_course_by_id from self.courses[i] on: the first record
\* whose id equals course_id, None after the last one; course['id'] raises
\* KeyError on a record without the key
\* what get_course_by_id returns: a course dict (is_none FALSE) or None
ReturnCourse(course) == [raised |-> FALSE, is_none |-> FALSE, value |-> course]
ReturnNone == [raised |-> FALSE, is_none |-> TRUE, value |-> NoneVal]

RECURSIVE FirstWithId(_, _, _)
FirstWithId(cs, course_id, i) ==
    IF i > Len(cs) THEN ReturnNone
    ELSE IF "id" \notin DOMAIN cs[i] THEN Raised
    ELSE IF cs[i].id = course_id THEN ReturnCourse(cs[i])
    ELSE FirstWithId(cs, course_id, i + 1)

\* get_course_by_id answering an unknown id with an empty record of that id
get_course_by_id_Placeholder(cs, course_id) ==
    IF FirstWithId(cs, course_id, 1).raised THEN Raised
    ELSE IF FirstWithId(cs, course_id, 1).is_none
    THEN ReturnCourse([id |-> course_id])
    ELSE FirstWithId(cs, course_id, 1)

\* SimpleCourseRAGSystem.get_course_by_id / CourseRAGSystem.get_course_by_id
get_course_by_id(cs, course_id) == FirstWithId(cs, course_id, 1)

\* x.lower() == y.lower()
EqualNoCase(x, y) == Lower(x) = Lower(y)
\* x == y
EqualRaw(x, y) == x = y

\* any(skill.lower() in skills_lower for skill in c['skills'])
OwnSkillRequested(c, skills) ==
    \E i \in 1..Len(c.skills), j \in 1..Len(skills) :
        Lower(c.skills[i]) = Lower(skills[j])

\* the any(...) running over the requested list instead of c['skills']
RequestedSkillRequested(c, skills) ==
    \E i \in 1..Len(skills), j \in 1..Len(skills) :
        Lower(skills[i]) = Lower(skills[j])

\* one list comprehension of filter_courses: the courses of cs whose key
\* field is there and passes Keep; KeyError / AttributeError otherwise
FilterStep(cs, on, key, Keep(_)) ==
    IF cs.raised \/ ~on THEN cs
    ELSE IF \E i \in 1..Len(cs.value) :
                key \notin DOMAIN cs.value[i] \/ cs.value[i][key] = NoneVal
         THEN Raised
         ELSE Ok(SelectSeq(cs.value, Keep))

\* the body of filter_courses with its three tests as parameters
FilterSteps(cs, category, difficulty, skills, category_on, SameText(_, _), SkillHit(_, _)) ==
    FilterStep(
        FilterStep(
            FilterStep(Ok(cs), category_on, "category",
                       LAMBDA c : SameText(c.category, category)),
            Truthy(difficulty), "difficulty",
            LAMBDA c : SameText(c.difficulty, difficulty)),
        Truthy(skills), "skills",
        LAMBDA c : SkillHit(c, skills))

\* filter_courses comparing category and difficulty without lower()
filter_courses_CaseSensitive(cs, category, difficulty, skills) ==
    FilterSteps(cs, category, difficulty, skills, Truthy(category),
                EqualRaw, OwnSkillRequested)

\* filter_courses testing `category is not None` instead of `category`
filter_courses_EmptyIsCriterion(cs, category, difficulty, skills) ==
    FilterSteps(cs, category, difficulty, skills, category # NoneVal,
                EqualNoCase, OwnSkillRequested)

\* filter_courses with the skills test run against the requested list itself
filter_courses_SelfCompare(cs, category, difficulty, skills) ==
    FilterSteps(cs, category, difficulty, skills, Truthy(category),
                EqualNoCase, RequestedSkillRequested)

\* SimpleCourseRAGSystem.filter_courses / CourseRAGSystem.filter_courses
filter_courses(cs, category, difficulty, skills) ==
    FilterSteps(cs, category, difficulty, skills, Truthy(category),
                EqualNoCase, OwnSkillRequested)

-----------------------------------------------------------------------------
(* What a call writes to the store.  search_courses writes the score and   *)
(* the rank of a result into course.copy(), a dict of its own.             *)

\* the score and the rank written into the stored record itself
WriteTarget_Stored == "stored"

\* lines 104-105: course_with_score = course.copy()
WriteTarget == "copy"

\* rag_system.py line 115: course = self.courses[idx].copy()
RagWriteTarget == "copy"

\* self.courses after a search whose loop built results
StoreAfterSearch(cs, results, target) ==
    IF target = "copy" THEN cs
    ELSE [i \in DOMAIN cs |->
            IF \E r \in DOMAIN results : results[r].id = cs[i].id
            THEN results[CHOOSE r \in DOMAIN results : results[r].id = cs[i].id]
            ELSE cs[i]]

-----------------------------------------------------------------------------
(* Inputs *)

QueryWords == {<<"a">>, <<"B">>, <<"a", "b">>}

\* the queries: up to MaxQueryWords words with single spaces between them, a
\* lone space, and None
Queries ==
    {Join(ws, <<" ">>) : ws \in UNION {[1..k -> QueryWords] : k \in 0..MaxQueryWords}}
        \cup {<<" ">>, NoneVal}

TopKs == (0 - MaxNegTopK)..MaxTopK

Interests == {<<"a">>, <<"a", " ", "a", "b">>, <<>>, NoneVal}
Backgrounds == {<<>>, <<"b">>}
SkillLevels == {<<>>, sBeginner, sAdvancedUc, sExpert}

\* the stores load_courses can leave behind: course records in file order, ids unique
Stores ==
    {st \in UNION {[1..k -> 1..Len(Catalogue)] : k \in 0..MaxCourses} :
        \A i, j \in DOMAIN st : i # j => st[i] # st[j]}

\* ids asked for: those of the catalogue, one in another case, an unknown one, None
CourseIds ==
    {Catalogue[i].id : i \in DOMAIN Catalogue} \cup {<<"C", "1">>, <<"z">>, NoneVal}

Categories == {NoneVal, <<>>, <<"X">>, <<"y">>, <<"z">>}
Difficulties == {NoneVal, <<>>, sBeginnerLc, sAdvancedUc}
SkillLists == {NoneVal, <<>>, << <<"A">> >>, << <<"b">>, <<"z">> >>, << <<"z">> >>}

StoreOf(st) == [i \in DOMAIN st |-> Catalogue[st[i]]]

\* CourseRAGSystem.__init__ gets through create_embeddings and build_index
\* only with a text for every course and at least one embedding row
RagConstructible(cs) ==
    cs # <<>> /\ \A i \in DOMAIN cs : ~rag_create_course_text(cs[i]).raised

Perms(n) == {f \in [1..n -> 1..n] : \A i, j \in 1..n : i # j => f[i] # f[j]}

SimLevels == {0, 1}

\* what the index may answer for a query: the courses nearest first
IndexAnswers(n) ==
    {a \in [order : Perms(n), sims : [1..n -> SimLevels]] :
        \A i \in 1..(n - 1) : a.sims[a.order[i]] >= a.sims[a.order[i + 1]]}

-----------------------------------------------------------------------------
(* The state machine: construction, then one call at a time *)

\* filter_courses() called with its defaults
NoCriteria == [category |-> NoneVal, difficulty |-> NoneVal, skills |-> NoneVal]

Idle ==
    /\ op = "none"
    /\ a_query = <<>> /\ a_text = <<>> /\ a_top_k = 0
    /\ a_interests = <<>> /\ a_background = <<>> /\ a_skill = <<>>
    /\ candidates = <<>> /\ idx_returned = <<>> /\ idx_used = <<>>
    /\ inner_raised = FALSE
    /\ a_course_id = <<>> /\ a_criteria = NoCriteria
    /\ ret = Ok(<<>>)

Init ==
    /\ engine \in {"lexical", "embedding"}
    /\ courses \in {StoreOf(st) : st \in Stores}
    /\ engine = "embedding" => RagConstructible(courses) /\ Len(courses) <= MaxRagCourses
    /\ app = <<>>
    /\ Idle

\* what a search_courses call leaves: whether its try block raised, and what
\* the call returned
SearchOutcome(body) ==
    /\ inner_raised' = body.raised
    /\ ret' = ExceptEmpty(body)

\* what the search_courses call inside get_recommendations leaves
InnerSearch(body) ==
    /\ inner_raised' = body.raised
    /\ candidates' = ExceptEmpty(body).value

\* SimpleCourseRAGSystem.search_courses(query, top_k)
SearchCourses ==
    /\ engine = "lexical" /\ op = "none"
    /\ \E query \in Queries, top_k \in TopKs :
        /\ op' = "search_courses"
        /\ a_query' = query
        /\ a_top_k' = top_k
        /\ SearchOutcome(search_try(courses, query, top_k))
    /\ courses' = StoreAfterSearch(courses, ret'.value, WriteTarget)
    /\ UNCHANGED <<engine, a_text, a_interests, a_background, a_skill,
                   candidates, idx_returned, idx_used, a_course_id, a_criteria, app>>

\* SimpleCourseRAGSystem.get_recommendations(user_interests, user_background, skill_level, top_k)
GetRecommendations ==
    /\ engine = "lexical" /\ op = "none"
    /\ \E user_interests \in Interests, user_background \in Backgrounds,
          skill_level \in SkillLevels, top_k \in TopKs :
        LET query == build_query(user_interests, user_background, skill_level) IN
        /\ op' = "get_recommendations"
        /\ a_interests' = user_interests
        /\ a_background' = user_background
        /\ a_skill' = skill_level
        /\ a_top_k' = top_k
        /\ a_query' = IF query.raised THEN NoneVal ELSE query.value
        /\ InnerSearch(IF query.raised THEN Ok(<<>>)
                       ELSE search_try(courses, query.value, top_k * 2))
        /\ ret' = get_recommendations(courses, user_interests, user_background,
                                      skill_level, top_k)
    /\ courses' = StoreAfterSearch(courses, candidates', WriteTarget)
    /\ UNCHANGED <<engine, a_text, idx_returned, idx_used, a_course_id, a_criteria, app>>

\* CourseRAGSystem.search_courses(query, top_k)
RagSearchCourses ==
    /\ engine = "embedding" /\ op = "none"
    /\ \E query \in {<<"a">>, NoneVal}, top_k \in TopKs,
          encode_ok \in BOOLEAN, answer \in IndexAnswers(Len(courses)) :
        LET hits == IF encode_ok /\ query # NoneVal /\ top_k > 0
                    THEN IndexSearch(Len(courses), answer.order, answer.sims, top_k)
                    ELSE <<>>
        IN
        /\ op' = "rag_search_courses"
        /\ a_query' = query
        /\ a_top_k' = top_k
        /\ idx_returned' = [i \in DOMAIN hits |-> hits[i].label]
        /\ idx_used' = [i \in DOMAIN UsedLabels(courses, hits) |->
                            UsedLabels(courses, hits)[i].label]
        /\ SearchOutcome(rag_search_try(courses, query, top_k, encode_ok,
                                        answer.order, answer.sims))
    /\ courses' = StoreAfterSearch(courses, ret'.value, RagWriteTarget)
    /\ UNCHANGED <<engine, a_text, a_interests, a_background, a_skill,
                   candidates, a_course_id, a_criteria, app>>

\* CourseRAGSystem.get_recommendations(user_interests, user_background, skill_level, top_k)
RagGetRecommendations ==
    /\ engine = "embedding" /\ op = "none"
    /\ \E user_interests \in {<<"a">>, NoneVal}, skill_level \in SkillLevels,
          top_k \in TopKs, encode_ok \in BOOLEAN,
          answer \in IndexAnswers(Len(courses)) :
        LET query == build_query(user_interests, <<>>, skill_level) IN
        /\ op' = "rag_get_recommendations"
        /\ a_interests' = user_interests
        /\ a_skill' = skill_level
        /\ a_top_k' = top_k
        /\ a_query' = IF query.raised THEN NoneVal ELSE query.value
        /\ InnerSearch(IF query.raised THEN Ok(<<>>)
                       ELSE rag_search_try(courses, query.value, top_k * 2,
                                           encode_ok, answer.order, answer.sims))
        /\ ret' = rag_get_recommendations(courses, user_interests, <<>>, skill_level,
                                          top_k, encode_ok, answer.order, answer.sims)
    /\ courses' = StoreAfterSearch(courses, candidates', RagWriteTarget)
    /\ UNCHANGED <<engine, a_text, a_background, idx_returned, idx_used,
                   a_course_id, a_criteria, app>>

\* get_course_by_id(course_id), the same in both classes
GetCourseById ==
    /\ op = "none"
    /\ \E course_id \in CourseIds :
        /\ op' = "get_course_by_id"
        /\ a_course_id' = course_id
        /\ ret' = get_course_by_id(courses, course_id)
    /\ UNCHANGED <<engine, courses, a_query, a_text, a_top_k, a_interests, a_background,
                   a_skill, candidates, idx_returned, idx_used, inner_raised,
                   a_criteria, app>>

\* filter_courses(category, difficulty, skills), the same in both classes
FilterCourses ==
    /\ op = "none"
    /\ \E category \in Categories, difficulty \in Difficulties, skills \in SkillLists :
        /\ op' = "filter_courses"
        /\ a_criteria' = [category |-> category, difficulty |-> difficulty,
                          skills |-> skills]
        /\ ret' = filter_courses(courses, category, difficulty, skills)
    /\ UNCHANGED <<engine, courses, a_query, a_text, a_top_k, a_interests, a_background,
                   a_skill, candidates, idx_returned, idx_used, inner_raised,
                   a_course_id, app>>

\* the caller takes the result; the system is ready for the next call
Return ==
    /\ op # "none"
    /\ op' = "none"
    /\ a_query' = <<>> /\ a_text' = <<>> /\ a_top_k' = 0
    /\ a_interests' = <<>> /\ a_background' = <<>> /\ a_skill' = <<>>
    /\ candidates' = <<>> /\ idx_returned' = <<>> /\ idx_used' = <<>>
    /\ inner_raised' = FALSE
    /\ a_course_id' = <<>> /\ a_criteria' = NoCriteria
    /\ ret' = Ok(<<>>)
    /\ UNCHANGED <<engine, courses, app>>

Next ==
    \/ SearchCourses
    \/ GetRecommendations
    \/ RagSearchCourses
    \/ RagGetRecommendations
    \/ GetCourseById
    \/ FilterCourses
    \/ Return

Spec == Init /\ [][Next]_vars

-----------------------------------------------------------------------------
(* simple_search_score on its own: the inputs are drawn first, then the    *)
(* function is applied to them                                             *)

\* course texts: those of the catalogue and every short string of a, b and space
Texts ==
    {create_course_text(Catalogue[i]).value :
        i \in {j \in DOMAIN Catalogue : WellFormed(Catalogue[j])}}
      \cup UNION {[1..k -> {"a", "b", " "}] : k \in 0..MaxTextLen}

ScoreInit ==
    /\ engine = "lexical"
    /\ courses = <<>>
    /\ op = "none"
    /\ a_query \in Queries
    /\ a_text \in Texts
    /\ a_top_k = 0
    /\ a_interests = <<>> /\ a_background = <<>> /\ a_skill = <<>>
    /\ candidates = <<>> /\ idx_returned = <<>> /\ idx_used = <<>>
    /\ inner_raised = FALSE
    /\ a_course_id = <<>> /\ a_criteria = NoCriteria /\ app = <<>>
    /\ ret = Ok(<<>>)

\* SimpleCourseRAGSystem.simple_search_score(query, course_text)
Score ==
    /\ op = "none"
    /\ op' = "simple_search_score"
    /\ ret' = simple_search_score(a_query, a_text)
    /\ UNCHANGED <<engine, courses, a_query, a_text, a_top_k, a_interests,
                   a_background, a_skill, candidates, idx_returned, idx_used,
                   inner_raised, a_course_id, a_criteria, app>>

ScoreSpec == ScoreInit /\ [][Score]_vars

-----------------------------------------------------------------------------
(* Properties *)

IsSearch == op = "search_courses"
IsRagSearch == op = "rag_search_courses"
IsRecommend == op \in {"get_recommendations", "rag_get_recommendations"}

HasRanks1toN(list) ==
    \A i \in 1..Len(list) : "rank" \in DOMAIN list[i] /\ list[i].rank = i

\* the word tokens of s, said without scanning: the runs of word characters
\* that no word character borders
WordRuns(s) ==
    {SubSeq(s, p[1], p[2]) : p \in
        {q \in (1..Len(s)) \X (1..Len(s)) :
            /\ q[1] <= q[2]
            /\ \A k \in q[1]..q[2] : s[k] \in WordChars
            /\ (q[1] = 1 \/ s[q[1] - 1] \notin WordChars)
            /\ (q[2] = Len(s) \/ s[q[2] + 1] \notin WordChars)}}

\* skill_level names one of the three levels, whatever its case
NamesLevel(skill_level) ==
    /\ skill_level # NoneVal
    /\ \E level \in {sBeginner, sIntermediate, sAdvanced} : Lower(level) = Lower(skill_level)

\* C1 as stated, on the searches that return something: for every query and
\* every top_k, search_courses returns at most top_k courses and their ranks
\* are 1, 2, ..., N in list order.
C1_AtMostTopKForEveryTopK ==
    IsSearch /\ ret.value # <<>> =>
        Len(ret.value) <= a_top_k /\ HasRanks1toN(ret.value)

\* C1 amended: the ranks of the list search_courses returns are 1, 2, ..., N
\* for every top_k, and the list has at most top_k courses when top_k >= 0.
C1_RanksContiguous ==
    IsSearch =>
        /\ ~ret.raised
        /\ HasRanks1toN(ret.value)
        /\ a_top_k >= 0 => Len(ret.value) <= a_top_k

\* a search that cut its scored list down to top_k >= 2 courses
C1_Witness ==
    /\ IsSearch
    /\ a_top_k >= 2
    /\ Len(ret.value) = a_top_k
    /\ Len(search_courses(courses, a_query, a_top_k + 1).value) > a_top_k

\* C2: with skill_level naming Beginner, Intermediate or Advanced in any case,
\* get_recommendations returns no course of another difficulty.
C2_OnlyRequestedDifficulty ==
    IsRecommend /\ NamesLevel(a_skill) =>
        \A i \in 1..Len(ret.value) :
            Lower(ret.value[i].difficulty) = Lower(a_skill)

\* a recommendation returned although the best candidate, with a strictly
\* higher score, was of another difficulty
C2_Witness ==
    /\ IsRecommend /\ NamesLevel(a_skill)
    /\ ret.value # <<>>
    /\ candidates # <<>>
    /\ Lower(candidates[1].difficulty) # Lower(a_skill)
    /\ ScoreGT(candidates[1].similarity_score, ret.value[1].similarity_score)

\* some course of the store has a text that shares a word with the query
SharesToken(cs, query) ==
    \E i \in DOMAIN cs :
        /\ WellFormed(cs[i])
        /\ WordRuns(Lower(query)) \cap WordRuns(Lower(TextParts(cs[i]))) # {}

SortedScoresInUnit(list) ==
    /\ \A i \in 1..(Len(list) - 1) :
        ScoreGE(list[i].similarity_score, list[i + 1].similarity_score)
    /\ \A i \in 1..Len(list) :
        /\ list[i].similarity_score.num > 0
        /\ list[i].similarity_score.num <= list[i].similarity_score.den

\* C3: on a non-empty store, with top_k >= 1 and a query sharing a word with
\* some course text, search_courses returns a non-empty list whose scores do
\* not increase along the list and lie in (0, 1].
C3_MatchFoundAndSorted ==
    IsSearch /\ a_query # NoneVal /\ courses # <<>> /\ a_top_k >= 1
             /\ SharesToken(courses, a_query) =>
        ret.value # <<>> /\ SortedScoresInUnit(ret.value)

\* C3 on the stores whose records are all complete
C3_OnCompleteStores ==
    IsSearch /\ a_query # NoneVal /\ courses # <<>> /\ a_top_k >= 1
             /\ SharesToken(courses, a_query)
             /\ (\A i \in DOMAIN courses : WellFormed(courses[i])) =>
        ret.value # <<>> /\ SortedScoresInUnit(ret.value)

NoCourseTwice(list) ==
    \A i, j \in 1..Len(list) : i # j => list[i].id # list[j].id

\* C4: the embedding search uses no label of the index that denotes no course
\* (the label the index pads its answer with when top_k exceeds the number of
\* courses), so it returns at most min(top_k, course count) courses, none twice.
C4_NoMatchLabelSkipped ==
    IsRagSearch /\ a_top_k >= 1 =>
        /\ \A i \in 1..Len(idx_used) : 0 <= idx_used[i] /\ idx_used[i] < Len(courses)
        /\ Len(ret.value) <= Min(a_top_k, Len(courses))
        /\ NoCourseTwice(ret.value)

\* the raw query, lowercased, lies in the lowercased course text
PhraseIn(query, course_text) ==
    \E i \in 0..(Len(course_text) - Len(query)) :
        \A k \in 1..Len(query) : Lower(course_text)[i + k] = Lower(query)[k]

\* C5: for a query with at least one token, simple_search_score is
\* min(1, base + bonus) with base = |query tokens in the course text| /
\* |query tokens| and bonus = 0.3 exactly when the lowercased query is a
\* substring of the lowercased text; the score is always in [0, 1].
C5_ScoreIsOverlapPlusBonus ==
    op = "simple_search_score" /\ a_query # NoneVal =>
        LET qt == WordRuns(Lower(a_query))
            ct == WordRuns(Lower(a_text))
            n == Cardinality(qt)
            sum == BonusDen * Cardinality(qt \cap ct)
                     + (IF PhraseIn(a_query, a_text) THEN BonusNum * n ELSE 0)
        IN  /\ ~ret.raised
            /\ ret.value.den > 0
            /\ 0 <= ret.value.num /\ ret.value.num <= ret.value.den
            /\ n > 0 => ret.value.num * (BonusDen * n)
                          = ret.value.den * Min(sum, BonusDen * n)

\* a score of base + 0.3 below the clamp: half the query tokens found, and
\* the phrase found
C5_Witness ==
    /\ op = "simple_search_score" /\ a_query # NoneVal
    /\ PhraseIn(a_query, a_text)
    /\ Cardinality(WordRuns(Lower(a_query))) = 2
    /\ Cardinality(WordRuns(Lower(a_query)) \cap WordRuns(Lower(a_text))) = 1
    /\ ret.value.num * BonusDen = (BonusDen - 2) * ret.value.den

\* C6: a query without word tokens scores 0 on every course, also when it is
\* a substring of the course text, and search_courses returns [] for it.
C6_NoTokensNoResults ==
    IsSearch /\ a_query # NoneVal /\ WordRuns(Lower(a_query)) = {} =>
        /\ ret.value = <<>>
        /\ \A i \in DOMAIN courses : WellFormed(courses[i]) =>
            LET score == simple_search_score(a_query, create_course_text(courses[i]).value)
            IN  ~score.raised /\ score.value.num = 0

\* a search for a non-empty query without tokens, over complete courses
\* whose texts all contain it
C6_Witness ==
    /\ IsSearch /\ a_query # NoneVal /\ a_query # <<>>
    /\ WordRuns(Lower(a_query)) = {}
    /\ a_top_k >= 1 /\ courses # <<>>
    /\ \A i \in DOMAIN courses :
        WellFormed(courses[i]) /\ PhraseIn(a_query, TextParts(courses[i]))
    /\ ret.value = <<>>

\* the candidates left after the skill-level filter
Survivors(list, skill_level) ==
    LET Keep(course) ==
            NamesLevel(skill_level) => Lower(course.difficulty) = Lower(skill_level)
    IN  SelectSeq(list, Keep)

FirstK(list, k) == [i \in 1..Min(Max(k, 0), Len(list)) |-> list[i]]

RecommendIsFilteredPrefix ==
    /\ engine = "lexical" => candidates = search_courses(courses, a_query, 2 * a_top_k).value
    /\ ret.value = FirstK(Survivors(candidates, a_skill), a_top_k)
    /\ Len(ret.value) <= a_top_k

\* C7 as stated, on the calls that return something: get_recommendations
\* returns the first top_k of the 2 * top_k candidates that survive the
\* skill-level filter, at most top_k courses.
C7_FirstTopKSurvivors ==
    IsRecommend /\ ~ret.raised /\ ret.value # <<>> => RecommendIsFilteredPrefix

\* C7 amended: the same for top_k >= 0.
C7_FirstTopKSurvivorsNonNeg ==
    IsRecommend /\ ~ret.raised /\ a_top_k >= 0 => RecommendIsFilteredPrefix

\* fewer than top_k recommendations, although the store holds a course of the
\* requested difficulty that the 2 * top_k candidates do not include
C7_Witness ==
    /\ IsRecommend /\ ~ret.raised /\ NamesLevel(a_skill)
    /\ a_top_k >= 1
    /\ Len(candidates) = 2 * a_top_k
    /\ Len(ret.value) < a_top_k
    /\ \E i \in DOMAIN courses :
        /\ WellFormed(courses[i])
        /\ Lower(courses[i].difficulty) = Lower(a_skill)
        /\ \A j \in 1..Len(candidates) : candidates[j].id # courses[i].id

\* C8: get_recommendations never raises; a failure inside it gives [].
C8_RecommendNeverRaises ==
    IsRecommend => ~ret.raised

\* C9: a failure inside the try block of search_courses, in either matcher,
\* gives the caller [], never an exception and never part of a result.
C9_SearchFailureGivesEmpty ==
    IsSearch \/ IsRagSearch =>
        /\ ~ret.raised
        /\ inner_raised => ret.value = <<>>

\* a lexical search that failed on a record after it had scored a match
C9_Witness ==
    /\ IsSearch /\ inner_raised /\ a_query # NoneVal /\ a_top_k >= 1
    /\ Len(courses) >= 2
    /\ WellFormed(courses[1])
    /\ SharesToken(<<courses[1]>>, a_query)
    /\ ret = Ok(<<>>)

\* C10: a record with a missing or malformed field fails the load, so no
\* search on a constructed store fails over a course field.
C10_NoFieldFailureAtQueryTime ==
    IsSearch /\ a_query # NoneVal => ~inner_raised

-----------------------------------------------------------------------------
(* Properties of the lookup, the filter engine and the store *)

IsFilter == op = "filter_courses"
IsGetById == op = "get_course_by_id"

\* a criterion that was given: neither None nor empty
Provided(v) == v # NoneVal /\ v # <<>>

RequestedCategory(c) ==
    Provided(a_criteria.category) => Lower(c.category) = Lower(a_criteria.category)
RequestedDifficulty(c) ==
    Provided(a_criteria.difficulty) => Lower(c.difficulty) = Lower(a_criteria.difficulty)
SharesSkill(c) ==
    \E i \in 1..Len(c.skills), j \in 1..Len(a_criteria.skills) :
        Lower(c.skills[i]) = Lower(a_criteria.skills[j])
RequestedSkills(c) == Provided(a_criteria.skills) => SharesSkill(c)

Returned(c) == \E k \in 1..Len(ret.value) : ret.value[k] = c

\* the returned list holds records of the store, in store order, none twice
InStoreOrder ==
    \E at \in [1..Len(ret.value) -> DOMAIN courses] :
        /\ \A k \in 1..Len(ret.value) : courses[at[k]] = ret.value[k]
        /\ \A k \in 1..(Len(ret.value) - 1) : at[k] < at[k + 1]

C13_NoCriteriaReturnsStore ==
    IsFilter /\ ~Provided(a_criteria.category) /\ ~Provided(a_criteria.difficulty)
             /\ ~Provided(a_criteria.skills) =>
        ret = Ok(courses)

\* a filter of a store of two or more courses with '' as category and [] as skills
C13_Witness ==
    /\ IsFilter
    /\ a_criteria.category = <<>> /\ a_criteria.skills = <<>>
    /\ ~Provided(a_criteria.difficulty)
    /\ Len(courses) >= 2
    /\ ret.value = courses

HasId(course_id) == \E i \in DOMAIN courses : courses[i].id = course_id

C15_StoreIsReadOnly ==
    [][/\ courses' = courses
       /\ \A i \in DOMAIN courses' :
            DOMAIN courses'[i] \cap {"similarity_score", "rank"} = {}]_vars

\* a search that returned scored and ranked results, the store without them
C15_Witness ==
    /\ IsSearch \/ IsRagSearch \/ IsRecommend
    /\ ret.value # <<>>
    /\ \A k \in 1..Len(ret.value) :
        {"similarity_score", "rank"} \subseteq DOMAIN ret.value[k]
    /\ \A i \in DOMAIN courses :
        DOMAIN courses[i] \cap {"similarity_score", "rank"} = {}

-----------------------------------------------------------------------------
(* Properties of the recommendations, the ranks and the ties *)

IsLexicalRecommend == op = "get_recommendations"

OfLevel(c) == Lower(c.difficulty) = Lower(a_skill)
ReturnedId(c) == \E k \in 1..Len(ret.value) : ret.value[k].id = c.id

AllOfTheLevel ==
    /\ \A k \in 1..Len(ret.value) : OfLevel(ret.value[k])
    /\ IF Cardinality({i \in DOMAIN courses : OfLevel(courses[i])}) <= a_top_k
       THEN \A i \in DOMAIN courses : OfLevel(courses[i]) => ReturnedId(courses[i])
       ELSE Len(ret.value) = a_top_k

\* C16: with the lexical matcher, a store of at most 2 * top_k courses and a
\* recognized skill_level, get_recommendations (given interests that are a
\* str) returns every course of that difficulty, up to top_k of them, and no
\* course of another difficulty.
C16_EveryCourseOfTheLevel ==
    IsLexicalRecommend /\ NamesLevel(a_skill) /\ a_interests # NoneVal
                       /\ Len(courses) <= 2 * a_top_k =>
        ~ret.raised /\ AllOfTheLevel

\* C16 on the stores whose records are all complete
C16_OnCompleteStores ==
    IsLexicalRecommend /\ NamesLevel(a_skill) /\ a_interests # NoneVal
                       /\ Len(courses) <= 2 * a_top_k
                       /\ (\A i \in DOMAIN courses : WellFormed(courses[i])) =>
        ~ret.raised /\ AllOfTheLevel

\* C17: every result of search_courses and of get_recommendations, in either
\* matcher, carries as rank its 1-based position in the returned list.
C17_RankIsPositionInReturnedList ==
    (IsSearch \/ IsRagSearch \/ IsRecommend) /\ ~ret.raised =>
        \A p \in 1..Len(ret.value) : ret.value[p].rank = p

StorePos(c) == CHOOSE i \in DOMAIN courses : courses[i].id = c.id
SameScore(a, b) == a.num * b.den = b.num * a.den
\* the score search_courses computes for the course at store position i
ScoreAt(i) == simple_search_score(a_query, create_course_text(courses[i]).value).value

\* C19: in the list search_courses returns, courses of equal score stand in
\* store order, and of courses tied at a score the list keeps the earlier
\* loaded ones: a course left out never precedes, in the store, a returned
\* course of the same score.
C19_TiesInStoreOrder ==
    IsSearch /\ ret.value # <<>> =>
        /\ \A p, q \in 1..Len(ret.value) :
            p < q /\ SameScore(ret.value[p].similarity_score, ret.value[q].similarity_score)
                => StorePos(ret.value[p]) < StorePos(ret.value[q])
        /\ \A p \in 1..Len(ret.value), i \in DOMAIN courses :
            SameScore(ScoreAt(i), ret.value[p].similarity_score) /\ ~ReturnedId(courses[i])
                => StorePos(ret.value[p]) < i

\* a search that returned two tied courses, the later loaded of them placed
\* first in the store before a third tied course that top_k cut off
C19_Witness ==
    /\ IsSearch /\ Len(ret.value) >= 2
    /\ SameScore(ret.value[1].similarity_score, ret.value[2].similarity_score)
    /\ \E i \in DOMAIN courses :
        /\ ~ReturnedId(courses[i])
        /\ SameScore(ScoreAt(i), ret.value[2].similarity_score)

PassesCategoryAndDifficulty(c) == RequestedCategory(c) /\ RequestedDifficulty(c)

\* C20 as stated: with a non-empty skills argument filter_courses keeps every
\* course that passes the category and difficulty criteria, whatever the
\* course's own skills.
C20_SkillsCriterionIsEmptinessCheck ==
    IsFilter /\ Provided(a_criteria.skills) /\ ~ret.raised =>
        \A i \in DOMAIN courses :
            PassesCategoryAndDifficulty(courses[i]) => Returned(courses[i])

\* C20 amended: with a non-empty skills argument, a course that passes the
\* category and difficulty criteria is kept if and only if one of its own
\* skills equals, whatever the case, one of the requested skills.
C20_SkillsCriterionIntersects ==
    IsFilter /\ Provided(a_criteria.skills) =>
        /\ ~ret.raised
        /\ \A i \in DOMAIN courses :
            PassesCategoryAndDifficulty(courses[i]) =>
                (Returned(courses[i]) <=> SharesSkill(courses[i]))

\* a filter by skills that dropped a course with skills of its own
C20_Witness ==
    /\ IsFilter /\ Provided(a_criteria.skills)
    /\ \E i \in DOMAIN courses :
        /\ PassesCategoryAndDifficulty(courses[i])
        /\ courses[i].skills # <<>>
        /\ ~Returned(courses[i])
    /\ \E i \in DOMAIN courses : Returned(courses[i])

\* the call is one of the two get_recommendations and its join gave a query
QueryPassed == IsRecommend /\ a_query # NoneVal

\* the parts of the call that are not empty, in the order interests,
\* background, skill_level
NonEmptyParts == SelectSeq(<<a_interests, a_background, a_skill>>, Truthy)

\* C21: the query get_recommendations passes to the matcher is the non-empty
\* parts among interests, background and skill_level, in this order, with one
\* space between them; an empty part contributes neither text nor separator.
C21_QueryIsJoinOfNonEmptyParts ==
    QueryPassed => a_query = Join(NonEmptyParts, <<" ">>)

\* the same for the calls that give interests: then the query is the join
\* of the non-empty parts
C21_WithInterestsGiven ==
    QueryPassed /\ Truthy(a_interests) => a_query = Join(NonEmptyParts, <<" ">>)

\* empty interests with a background: the query starts with the separator
C21_LeadingSeparator ==
    QueryPassed /\ a_interests = <<>> /\ Truthy(a_background)
        => a_query = <<" ">> \o Join(NonEmptyParts, <<" ">>)

-----------------------------------------------------------------------------
(* The application, src/app.py: one script run per user event.  app holds  *)
(* st.session_state, the two st.cache_resource caches and what the last    *)
(* run did; courses is the store of the cached SimpleCourseRAGSystem.      *)

MaxChat == 2

\* numbers app.py and chatbot.py pass or compare with
SidebarTopK == 5
RerunTopK == 3
SuggestTopK == 3
ChatTopK == 5
MaxHistory == 5
RecentShown == 3

\* the fields display_course_card and create_context_from_courses read
\* besides those of the course text
DisplayKeys == {"duration", "provider", "rating", "enrollment_count"}
ContextKeys == (TextKeys \cup DisplayKeys) \ {"enrollment_count"}
WithDisplayFields(c) ==
    [duration |-> <<"1", "h">>, provider |-> <<"p">>, rating |-> 4,
     enrollment_count |-> 1] @@ c

\* what course_data.json may hold under 'courses' when it parses and has the key
FileStores ==
    { <<WithDisplayFields(Catalogue[1]), WithDisplayFields(Catalogue[2]),
        WithDisplayFields(Catalogue[4])>>,
      <<WithDisplayFields(Catalogue[1]), Catalogue[2]>>,
      <<WithDisplayFields(Catalogue[5]), WithDisplayFields(Catalogue[1])>> }

\* the data file as the constructor finds it
DataFiles ==
    {[state |-> s, store |-> <<>>] : s \in {"missing", "malformed_json", "no_courses_key"}}
        \cup {[state |-> "ok", store |-> st] : st \in FileStores}

\* load_courses that logs its failure and leaves the empty store
load_courses_EmptyOnFailure(file) ==
    IF file.state = "ok" THEN Ok(file.store) ELSE Ok(<<>>)

\* SimpleCourseRAGSystem.load_courses: open raises FileNotFoundError,
\* json.load JSONDecodeError, data['courses'] KeyError; none is swallowed
load_courses(file) ==
    IF file.state = "ok" THEN Ok(file.store) ELSE Raised

\* SimpleCourseRAGSystem.__init__: self.courses of the new instance, or the
\* exception of load_courses
SimpleCourseRAGSystem_init(file) == load_courses(file)

\* initialize_rag_system without the cache: the instance or None
initialize_rag_system(file) ==
    IF SimpleCourseRAGSystem_init(file).raised THEN "None" ELSE "instance"

\* initialize_chatbot without the cache: CourseChatbot.__init__ raises when
\* there is no API key or the client cannot be made
initialize_chatbot(api_key) == IF api_key THEN "instance" ELSE "None"

EmptyProfile == [interests |-> <<>>, background |-> <<>>, skill_level |-> <<>>]

\* lines 137-153: the session state of a new session, nothing cached
NewSession(file, api_key) ==
    [data_file |-> file, api_key |-> api_key,
     rag_cache |-> "unset", chatbot_cache |-> "unset",
     rag_system |-> "None", chatbot |-> "None",
     conversation_history |-> <<>>, user_profile |-> EmptyProfile,
     search_history |-> <<>>,
     \* the last script run
     event |-> "none", stopped |-> FALSE, rendered |-> FALSE,
     constructed |-> FALSE, ctor_raised |-> FALSE,
     shown |-> <<>>, llm |-> "none", gen_raised |-> FALSE,
     \* the query this run passed to the matcher, and whether it dropped
     \* the oldest entry of search_history
     query |-> <<>>, popped |-> FALSE,
     \* some search or recommendation was run against the store
     queried |-> FALSE]

\* the constructor runs in this script run: rag_system is None and the cache is empty
Constructs(a) == a.rag_system = "None" /\ a.rag_cache = "unset"

\* lines 282-294 of main: the cached initializations and the two st.stop()
Startup(a) ==
    LET rag_cache == IF Constructs(a) THEN initialize_rag_system(a.data_file)
                     ELSE a.rag_cache
        rag == IF a.rag_system = "None" THEN rag_cache ELSE a.rag_system
        bot_cache == IF rag # "None" /\ a.chatbot = "None" /\ a.chatbot_cache = "unset"
                     THEN initialize_chatbot(a.api_key) ELSE a.chatbot_cache
        bot == IF rag # "None" /\ a.chatbot = "None" THEN bot_cache ELSE a.chatbot
    IN  [a EXCEPT !.rag_cache = rag_cache, !.rag_system = rag,
                  !.chatbot_cache = bot_cache, !.chatbot = bot,
                  !.stopped = (rag = "None" \/ bot = "None"),
                  !.rendered = ~(rag = "None" \/ bot = "None"),
                  !.constructed = Constructs(a),
                  !.ctor_raised = Constructs(a)
                                  /\ SimpleCourseRAGSystem_init(a.data_file).raised,
                  !.shown = <<>>, !.llm = "none", !.gen_raised = FALSE,
                  !.query = <<>>, !.popped = FALSE]

\* self.courses of the cached instance after the startup of this run
StoreAfterStartup(a, cs) ==
    IF Constructs(a) /\ ~SimpleCourseRAGSystem_init(a.data_file).raised
    THEN SimpleCourseRAGSystem_init(a.data_file).value ELSE cs

\* display_course_card and the expander titles: KeyError on a missing field
DisplayOk(results) ==
    \A i \in 1..Len(results) : (TextKeys \cup DisplayKeys) \subseteq DOMAIN results[i]

\* CourseChatbot.create_context_from_courses: the numbered titles, or KeyError
create_context_from_courses(recs) ==
    IF \E i \in 1..Len(recs) : ~(ContextKeys \subseteq DOMAIN recs[i]) THEN Raised
    ELSE Ok([i \in 1..Len(recs) |-> <<i, recs[i].title>>])

\* what client.models.generate_content may do
LlmOutcomes == {"raises", "empty_text", "text"}

\* the texts a chat answer can be: response.text of the model, the apology
\* of line 169, the error text of line 173, the error message of app.py line 504
ModelText == "model_text"
Apology == "apology"
ErrorText == "error"
AppErrorText == "app_error"

\* lines 166-169 of generate_response, after the model has answered
ReplyOrApology(context, llm) ==
    IF context.raised \/ llm = "raises" THEN Raised
    ELSE IF llm = "text" THEN Ok(ModelText) ELSE Ok(Apology)

\* lines 111-169, the try block of generate_response
generate_try(recs, llm) ==
    IF recs.raised THEN Raised
    ELSE ReplyOrApology(create_context_from_courses(recs.value), llm)

\* an except clause that logs and raises again
ExceptMessage_Reraise(body) == body

\* lines 171-173: except Exception: return the error text
ExceptMessage(body) == IF body.raised THEN Ok(ErrorText) ELSE body

\* lines 112-117: the recommendations generate_response asks for, with
\* user_interests or user_message as the interests
ChatRecommendations(cs, user_message, user_interests, user_background, skill_level) ==
    get_recommendations(cs, IF Truthy(user_interests) THEN user_interests
                            ELSE user_message,
                        user_background, skill_level, ChatTopK)

\* the query that call passes to the matcher
ChatQuery(user_message, profile) ==
    build_query(IF Truthy(profile.interests) THEN profile.interests ELSE user_message,
                profile.background, profile.skill_level)

\* generate_response from the outcome of its get_recommendations call on
generate_response_from(recs, llm) == ExceptMessage(generate_try(recs, llm))

\* CourseChatbot.generate_response
generate_response(cs, user_message, user_interests, user_background, skill_level, llm) ==
    generate_response_from(
        ChatRecommendations(cs, user_message, user_interests, user_background,
                            skill_level),
        llm)

\* lines 469-475: the texts the two shortcut buttons send
RecText == <<"a", " ", "b">>
HelpText == <<"h">>

UserMessage(text) == [role |-> "user", content |-> text]
AssistantMessage(content) == [role |-> "assistant", content |-> content]

\* the exchange that leaves the user message unanswered when the model call
\* raised
HandleChat_NoErrorMessage(a, user_input, llm, response) ==
    IF user_input = <<>> THEN a
    ELSE [a EXCEPT
            !.conversation_history =
                @ \o (IF llm = "raises" THEN <<UserMessage(user_input)>>
                      ELSE <<UserMessage(user_input),
                             AssistantMessage(response.value)>>),
            !.llm = llm, !.gen_raised = response.raised, !.queried = TRUE,
            !.query = ChatQuery(user_input, a.user_profile).value]

\* lines 480-511: the user message, then the response or the error message
\* of the except clause of app.py
HandleChat(a, user_input, llm, response) ==
    IF user_input = <<>> THEN a
    ELSE [a EXCEPT
            !.conversation_history =
                @ \o <<UserMessage(user_input),
                       AssistantMessage(IF response.raised THEN AppErrorText
                                        ELSE response.value)>>,
            !.llm = llm, !.gen_raised = response.raised, !.queried = TRUE,
            !.query = ChatQuery(user_input, a.user_profile).value]

\* the courses a run put on the page
Ids(results) == [i \in 1..Len(results) |-> results[i].id]

\* search_history.pop(0) runs at line 381
Pops(history, query) ==
    /\ \A i \in 1..Len(history) : history[i] # query
    /\ Len(history) + 1 > MaxHistory

\* the query remembered and nothing ever forgotten
Remember_NoEviction(history, query) ==
    IF \E i \in 1..Len(history) : history[i] = query THEN history
    ELSE Append(history, query)

\* lines 378-381: the query remembered, the oldest forgotten past MaxHistory
Remember(history, query) ==
    IF \E i \in 1..Len(history) : history[i] = query THEN history
    ELSE IF Len(history) + 1 > MaxHistory THEN Tail(Append(history, query))
    ELSE Append(history, query)

\* lines 366-383: the sidebar search; a result that cannot be displayed ends
\* the script run before the history is touched
HandleSearch(a, query, results) ==
    IF query = <<>> THEN a
    ELSE IF results = <<>> THEN [a EXCEPT !.queried = TRUE, !.query = query]
    ELSE IF ~DisplayOk(results)
    THEN [a EXCEPT !.queried = TRUE, !.query = query, !.shown = Ids(results)]
    ELSE [a EXCEPT !.queried = TRUE, !.query = query, !.shown = Ids(results),
                   !.search_history = Remember(@, query),
                   !.popped = Pops(a.search_history, query)]

\* lines 388-397 and 253-264: a search whose results are only shown
HandleShow(a, query, results) ==
    [a EXCEPT !.queried = TRUE, !.query = query, !.shown = Ids(results)]

\* line 388: the queries with a re-run button
Recent(history) ==
    {history[i] : i \in {j \in 1..Len(history) : j > Len(history) - RecentShown}}

\* the suggestions with a button (line 253), in the alphabet of the model
Suggestions == {<<"a">>, <<"b", " ", "z">>}

\* lines 517-519: the featured courses need a rating on every record; the
\* suggestion buttons come after them
FeaturedOk(cs) == \A i \in 1..Len(cs) : "rating" \in DOMAIN cs[i]

AppQueries == {<<>>, <<"a">>, <<"b">>, <<"z">>, <<"x">>, <<"y">>, <<"A">>, <<"B">>}
ChatInputs == {<<>>, <<"a">>}
\* the profiles the sidebar can save
Profiles ==
    {EmptyProfile,
     [interests |-> <<"b">>, background |-> <<>>, skill_level |-> sBeginner],
     [interests |-> <<>>, background |-> <<"b">>, skill_level |-> <<>>]}

\* the application makes no call of its own on the variables of a single call
AppFrame ==
    UNCHANGED <<engine, op, a_query, a_text, a_top_k, a_interests, a_background,
                a_skill, candidates, idx_returned, idx_used, inner_raised,
                a_course_id, a_criteria, ret>>

AppInit ==
    /\ engine = "lexical"
    /\ courses = <<>>
    /\ Idle
    /\ app \in {NewSession(file, api_key) : file \in DataFiles, api_key \in BOOLEAN}

\* the session state after the startup of a run that handles event
Started(event) == [Startup(app) EXCEPT !.event = event]

\* a script run: started is the session state after the startup, handled the
\* state its event handler leaves if the run gets that far, cs the store
ScriptRun(started, handled, cs) ==
    /\ app' = IF started.stopped THEN started ELSE handled
    /\ courses' = cs
    /\ AppFrame

\* a script run without a widget event: the first load, a reload
PageLoad ==
    ScriptRun(Started("load"), Started("load"), StoreAfterStartup(app, courses))

\* lines 334-341: Update Profile
UpdateProfile ==
    /\ app.rendered
    /\ \E profile \in Profiles :
        ScriptRun(Started("profile"),
                  [Started("profile") EXCEPT !.user_profile = profile],
                  StoreAfterStartup(app, courses))

\* what search_courses returns for every store a data file can hold, every
\* query the sidebar can send and the top_k values app.py passes; the
\* store of a running session is that of its data file and no search changes it
SearchTable ==
    [cs \in FileStores |->
        [query \in AppQueries \cup Suggestions |->
            [top_k \in {SidebarTopK, RerunTopK, SuggestTopK} |->
                search_courses(cs, query, top_k).value]]]

\* st.session_state.rag_system.search_courses(query, top_k=top_k)
Searched(cs, query, top_k) == SearchTable[cs][query][top_k]

\* the search of the sidebar, made only with a query in the text input
SearchIfAny(cs, query) ==
    IF query = <<>> THEN <<>> ELSE Searched(cs, query, SidebarTopK)

\* lines 366-383: the Search button with search_query in the text input
SidebarSearch ==
    /\ app.rendered
    /\ \E query \in AppQueries :
        ScriptRun(Started("search"),
                  HandleSearch(Started("search"), query,
                               SearchIfAny(StoreAfterStartup(app, courses), query)),
                  StoreAfterStartup(app, courses))

\* lines 386-397: a button of the recent searches
HistoryRerun ==
    /\ app.rendered
    /\ \E query \in Recent(app.search_history) :
        ScriptRun(Started("history"),
                  HandleShow(Started("history"), query,
                             Searched(StoreAfterStartup(app, courses),
                                      query, RerunTopK)),
                  StoreAfterStartup(app, courses))

\* lines 253-264: a suggestion button
SuggestionClick ==
    /\ app.rendered /\ FeaturedOk(courses)
    /\ \E suggestion \in Suggestions :
        ScriptRun(Started("suggestion"),
                  HandleShow(Started("suggestion"), suggestion,
                             Searched(StoreAfterStartup(app, courses),
                                      suggestion, SuggestTopK)),
                  StoreAfterStartup(app, courses))

\* lines 404-407: Clear Chat
ClearChat ==
    /\ app.rendered
    /\ ScriptRun(Started("clear"),
                 [Started("clear") EXCEPT !.conversation_history = <<>>],
                 StoreAfterStartup(app, courses))

\* lines 410-415: Reset All
ResetAll ==
    /\ app.rendered
    /\ ScriptRun(Started("reset"),
                 [Started("reset") EXCEPT !.conversation_history = <<>>,
                                          !.user_profile = EmptyProfile,
                                          !.search_history = <<>>],
                 StoreAfterStartup(app, courses))

\* lines 469-475: the text the form submits for the button pressed
SubmittedInput(button, text) ==
    IF button = "rec" THEN RecText ELSE IF button = "help" THEN HelpText ELSE text

\* what the chat form can submit: Send with the text typed, or a shortcut button
Submissions ==
    {[button |-> "send", text |-> text] : text \in ChatInputs}
        \cup {[button |-> button, text |-> <<>>] : button \in {"rec", "help"}}

\* lines 480-511 for a submitted text: nothing for an empty one, else the
\* exchange with whatever the model call does; recs is the outcome of the
\* get_recommendations call of generate_response
Answered(started, cs, user_input, recs) ==
    IF user_input = <<>> THEN ScriptRun(started, started, cs)
    ELSE \E llm \in LlmOutcomes :
            ScriptRun(started,
                      HandleChat(started, user_input, llm,
                                 generate_response_from(recs, llm)),
                      cs)

\* lines 451-511: a button of the chat form; the st.rerun() that ends the
\* handling starts a run without an event
ChatSubmit ==
    /\ app.rendered
    /\ Len(app.conversation_history) < 2 * MaxChat
    /\ \E sub \in Submissions :
        Answered(Started("chat"), StoreAfterStartup(app, courses),
                 SubmittedInput(sub.button, sub.text),
                 ChatRecommendations(StoreAfterStartup(app, courses),
                                     SubmittedInput(sub.button, sub.text),
                                     app.user_profile.interests,
                                     app.user_profile.background,
                                     app.user_profile.skill_level))

AppNext ==
    \/ PageLoad
    \/ UpdateProfile
    \/ SidebarSearch
    \/ HistoryRerun
    \/ SuggestionClick
    \/ ClearChat
    \/ ResetAll
    \/ ChatSubmit

AppSpec == AppInit /\ [][AppNext]_vars

\* The chat and the sidebar searches share no session state: the chat reads
\* and writes conversation_history and the profile, the searches
\* search_history, and Clear Chat and Reset All are the only events that
\* touch both.  Each side is also taken on its own, with those two events.

ChatNext ==
    \/ PageLoad
    \/ UpdateProfile
    \/ ChatSubmit
    \/ ClearChat
    \/ ResetAll

ChatSpec == AppInit /\ [][ChatNext]_vars

SidebarNext ==
    \/ PageLoad
    \/ SidebarSearch
    \/ HistoryRerun
    \/ SuggestionClick
    \/ ClearChat
    \/ ResetAll

SidebarSpec == AppInit /\ [][SidebarNext]_vars

-----------------------------------------------------------------------------
(* Properties of the application *)

\* C11: when the data file is missing, is no JSON or has no courses key, the
\* constructor raises, every script run stops at the start of main, no
\* instance and no chatbot exist, and no search, recommendation or chat
\* message is ever made.
C11_FailedConstructionStopsTheApp ==
    app.data_file.state # "ok" =>
        /\ app.constructed => app.ctor_raised
        /\ app.event # "none" => app.stopped
        /\ app.rag_system = "None" /\ app.rag_cache # "instance"
        /\ app.chatbot = "None" /\ app.chatbot_cache = "unset"
        /\ ~app.rendered /\ ~app.queried
        /\ app.conversation_history = <<>> /\ app.search_history = <<>>

\* a reload of the page after the constructor raised KeyError on a document
\* without a courses key: the cached None stops the run again
C11_Witness ==
    /\ app.data_file.state = "no_courses_key"
    /\ app.event = "load" /\ ~app.constructed
    /\ app.rag_cache = "None" /\ app.stopped

\* C18: generate_response never raises: when the model call raises it returns
\* the error text, when the model answers with no text it returns no reply
\* but the apology (or the error text of an earlier failure), and a chat
\* submission that is processed appends the user message and then exactly
\* one assistant message.
C18_ResponseNeverRaises ==
    [][app'.event = "chat" /\ app'.llm # "none" =>
        /\ ~app'.gen_raised
        /\ Len(app'.conversation_history) = Len(app.conversation_history) + 2
        /\ SubSeq(app'.conversation_history, 1, Len(app.conversation_history))
                = app.conversation_history
        /\ app'.conversation_history[Len(app.conversation_history) + 1].role = "user"
        /\ LET answer == app'.conversation_history[Len(app.conversation_history) + 2]
           IN  /\ answer.role = "assistant"
               /\ answer.content \in {ModelText, Apology, ErrorText}
               /\ app'.llm = "raises" => answer.content = ErrorText
               /\ app'.llm = "empty_text" => answer.content \in {Apology, ErrorText}]_vars

\* a second exchange in which the model call raised and the assistant
\* message is the error text
C18_Witness ==
    /\ app.event = "chat" /\ app.llm = "raises"
    /\ Len(app.conversation_history) = 4
    /\ app.conversation_history[4] = AssistantMessage(ErrorText)
    /\ app.conversation_history[3].role = "user"

\* the query of a chat submission handled by app.py is the non-empty parts
\* among the interests of the profile (the message typed when there are
\* none), the background and the skill level: the form submits no empty
\* message, so its first part is never empty
C21_ChatFormQuery ==
    app.event = "chat" /\ app.llm # "none" =>
        LET message == app.conversation_history[Len(app.conversation_history) - 1].content
            first == IF app.user_profile.interests = <<>> THEN message
                     ELSE app.user_profile.interests
        IN  /\ first # <<>>
            /\ app.query = Join(SelectSeq(<<first, app.user_profile.background,
                                            app.user_profile.skill_level>>, Truthy),
                                <<" ">>)

\* a message sent with a profile that has a background and no interests
C21_ChatFormWitness ==
    /\ app.event = "chat" /\ app.llm # "none"
    /\ app.user_profile.interests = <<>> /\ app.user_profile.background # <<>>
    /\ app.query = <<"a", " ", "b">>

\* search_history is within its size and holds no query twice
HistoryOk(history) ==
    /\ Len(history) <= MaxHistory
    /\ \A i, j \in 1..Len(history) : history[i] = history[j] => i = j

\* the run that led to the primed state was a sidebar search of a query
\* that was not in search_history and that returned at least one result
AppendingSearch ==
    /\ app'.event = "search" /\ app'.shown # <<>> /\ app'.query # <<>>
    /\ \A i \in 1..Len(app.search_history) : app.search_history[i] # app'.query

\* what a script run may do to search_history
HistoryStep ==
    /\ app'.search_history # app.search_history =>
        \/ app'.event = "reset" /\ app'.search_history = <<>>
        \/ /\ AppendingSearch
           /\ app'.search_history =
                (IF Len(app.search_history) = MaxHistory
                 THEN Tail(app.search_history) ELSE app.search_history)
                    \o <<app'.query>>
    /\ app.search_history # <<>> /\ app'.search_history = <<>>
        => app'.event = "reset"
    /\ app'.event \in {"history", "suggestion", "clear", "load"}
        => app'.search_history = app.search_history

\* C22: search_history holds at most 5 queries, none twice; it changes only
\* when a sidebar search of a query not yet in it returned a result, which
\* appends that query and drops the oldest entry if that makes six, or when
\* Reset All empties it; history re-runs, suggestion clicks, Clear Chat and
\* reloads leave it as it is, and nothing but Reset All makes it empty.
C22_SearchHistoryBoundedAndDistinct ==
    [](HistoryOk(app.search_history)) /\ [][HistoryStep]_vars

\* a sixth query was searched with results: the history still holds five,
\* the new one last, and the oldest one is gone
C22_Witness ==
    /\ app.event = "search" /\ app.popped
    /\ Len(app.search_history) = MaxHistory
    /\ app.search_history[MaxHistory] = app.query

\* user, assistant, user, assistant, ...: even length, user messages at the
\* odd places, assistant messages at the even ones
Alternates(history) ==
    /\ Len(history) % 2 = 0
    /\ \A i \in 1..Len(history) :
        history[i].role = (IF i % 2 = 1 THEN "user" ELSE "assistant")

\* what a script run may do to conversation_history: a submission with a
\* text appends that user message and one assistant message, one without a
\* text nothing, Clear Chat and Reset All empty it, any other run leaves it
ChatStep ==
    /\ app'.event = "chat" /\ app'.llm # "none" =>
        \E text \in (ChatInputs \cup {RecText, HelpText}) \ {<<>>},
           answer \in {ModelText, Apology, ErrorText, AppErrorText} :
            app'.conversation_history =
                app.conversation_history
                    \o <<UserMessage(text), AssistantMessage(answer)>>
    /\ app'.event = "chat" /\ app'.llm = "none" =>
        app'.conversation_history = app.conversation_history
    /\ app'.event \in {"clear", "reset"} /\ ~app'.stopped =>
        app'.conversation_history = <<>>
    /\ app'.event \in {"load", "profile"} =>
        app'.conversation_history = app.conversation_history

\* C23: after every script run conversation_history alternates user,
\* assistant, ... from a user message on and has even length: a submission
\* with a text appends exactly one user message and right after it exactly
\* one assistant message, a submission without a text appends nothing, and
\* Clear Chat and Reset All leave the empty history.
C23_HistoryAlternates ==
    [](Alternates(app.conversation_history)) /\ [][ChatStep]_vars

\* a second exchange, answered with the apology, after a first one that was
\* answered with the error text
C23_Witness ==
    /\ app.event = "chat" /\ app.llm = "empty_text"
    /\ Len(app.conversation_history) = 4
    /\ app.conversation_history[2] = AssistantMessage(ErrorText)
    /\ app.conversation_history[3].role = "user"
    /\ app.conversation_history[4] = AssistantMessage(Apology)

\* a submission without a text after an exchange: nothing was appended
C23_EmptySubmissionWitness ==
    /\ app.event = "chat" /\ app.llm = "none" /\ ~app.stopped
    /\ Len(app.conversation_history) = 2

====
